---- MODULE Spec2Model ----
(***************************************************************************)
(* StyleHub (addons/gestion_peluquerias): the appointment store, the       *)
(* schedule singleton and the validation, lifecycle and discount logic of  *)
(* stylehub_appointment.py and stylehub_schedule.py as a state machine.    *)
(*                                                                         *)
(* Time is counted in ticks of 20 seconds from Monday 00:00 (local time of *)
(* the user; context_timestamp is taken with a zero offset).  Hours of the *)
(* schedule (Float fields, "9.5 = 09:30") are ticks since midnight, so a   *)
(* schedule hour may fall between two whole minutes, as a float may.       *)
(* Money is counted in cents.                                              *)
(*                                                                         *)
(* Every operation is one ORM transaction: the derived fields are          *)
(* recomputed, the constraints run, and an exception rolls everything      *)
(* back.  result is the outcome of the last request: "ok" or the           *)
(* exception it raised.                                                    *)
(***************************************************************************)
EXTENDS Integers, Sequences, FiniteSets, TLC

VARIABLES schedules, appts, partners, stylists, services, txns, result, probe

vars == <<schedules, appts, partners, stylists, services, txns, result, probe>>

----------------------------------------------------------------------------
(* Units *)

TicksPerMinute == 60 \div 20
TicksPerHour == 60 * TicksPerMinute
TicksPerDay == 24 * TicksPerHour

\* A float of hours: h hours, m minutes and t ticks (thirds of a minute).
Hrs(h, m, t) == h * TicksPerHour + m * TicksPerMinute + t

\* A datetime: day 0 is a Monday.
At(day, h, m) == day * TicksPerDay + h * TicksPerHour + m * TicksPerMinute

\* datetime.weekday(): 0 = Monday, 6 = Sunday.
Weekday(dt) == (dt \div TicksPerDay) % 7

----------------------------------------------------------------------------
(* Bounds *)

MaxAppts == 2
MaxLines == 1
MaxBatch == 2
MaxHistory == 5
MaxDetailLines == 3

----------------------------------------------------------------------------
(* Inputs *)

Partners == {"p1", "p2"}
\* The one client of the bookings of Spec.
BookingPartners == {"p1"}
Stylists == {"ana", "bea"}

\* Two lines as the form fills them from the catalog.
Cut == [service_id |-> "cut", price_unit |-> 10000, duration |-> TicksPerHour]
Wash == [service_id |-> "wash", price_unit |-> 2000, duration |-> TicksPerHour \div 2]

\* stylehub.service: the catalog the lines above were filled from.
ServiceNames == {"cut", "wash"}
Catalog ==
    [name \in ServiceNames |->
        IF name = "cut" THEN [price |-> Cut.price_unit, duration |-> Cut.duration]
        ELSE [price |-> Wash.price_unit, duration |-> Wash.duration]]

\* stylehub.stylist: active defaults to True.
AllActive == [s \in Stylists |-> [active |-> TRUE]]
LineVals == {Wash}

RECURSIVE SeqsUpTo(_, _)
SeqsUpTo(S, n) ==
    IF n = 0 THEN {<<>>}
    ELSE LET shorter == SeqsUpTo(S, n - 1)
         IN  shorter \cup {Append(s, x) : s \in {q \in shorter : Len(q) = n - 1}, x \in S}

LineSeqs == SeqsUpTo(LineVals, MaxLines)

\* Monday 10:00 and 10:30, Sunday 10:00.
Starts == {At(0, 10, 0), At(0, 10, 30), At(6, 10, 0)}

\* Durations a line is edited to; 0 breaks CHECK(duration > 0).
EditDurations == {0, TicksPerHour}

----------------------------------------------------------------------------
(* stylehub.schedule *)

\* The field defaults of the model.
DefaultSchedule ==
    [weekday_morning_open |-> Hrs(9, 30, 0), weekday_morning_close |-> Hrs(13, 30, 0),
     weekday_afternoon_open |-> Hrs(16, 30, 0), weekday_afternoon_close |-> Hrs(20, 30, 0),
     saturday_active |-> TRUE,
     saturday_morning_open |-> Hrs(9, 30, 0), saturday_morning_close |-> Hrs(14, 0, 0),
     saturday_afternoon_active |-> FALSE,
     saturday_afternoon_open |-> Hrs(16, 30, 0), saturday_afternoon_close |-> Hrs(20, 0, 0)]

\* Opens at 11:00 on weekdays and stays closed on Saturday.
LateSchedule ==
    [DefaultSchedule EXCEPT !.weekday_morning_open = Hrs(11, 0, 0), !.saturday_active = FALSE]

\* Opens before 08:00: refused by _check_schedule_times.
EarlySchedule == [DefaultSchedule EXCEPT !.weekday_morning_open = Hrs(7, 0, 0)]

\* The vals of a write request.
ScheduleVals == {LateSchedule, EarlySchedule}

\* The vals_list of a create request.
ScheduleBatches ==
    {<<DefaultSchedule>>, <<EarlySchedule>>, <<LateSchedule, DefaultSchedule>>}

MinOpen == 8 * TicksPerHour
MaxClose == 22 * TicksPerHour

\* The four models.Constraint CHECKs of the table.
sql_constraints(rec) ==
    /\ rec.weekday_morning_open >= MinOpen
    /\ rec.weekday_afternoon_close <= MaxClose
    /\ rec.saturday_morning_open >= MinOpen
    /\ rec.saturday_afternoon_close <= MaxClose

\* Mutant: without the check that the weekday morning shift ends before
\* the afternoon shift begins.
check_schedule_times_shifts_may_cross(rec) ==
    /\ ~(rec.weekday_morning_open < MinOpen)
    /\ ~(rec.saturday_active /\ rec.saturday_morning_open < MinOpen)
    /\ ~(rec.saturday_active /\ rec.saturday_afternoon_active
           /\ rec.saturday_afternoon_open < MinOpen)
    /\ ~(rec.weekday_afternoon_close > MaxClose)
    /\ ~(rec.saturday_active /\ rec.saturday_morning_close > MaxClose)
    /\ ~(rec.saturday_active /\ rec.saturday_afternoon_active
           /\ rec.saturday_afternoon_close > MaxClose)
    /\ ~(rec.weekday_morning_open >= rec.weekday_morning_close)
    /\ ~(rec.weekday_afternoon_open >= rec.weekday_afternoon_close)
    /\ (rec.saturday_active =>
          /\ ~(rec.saturday_morning_open >= rec.saturday_morning_close)
          /\ (rec.saturday_afternoon_active =>
                /\ ~(rec.saturday_afternoon_open >= rec.saturday_afternoon_close)
                /\ ~(rec.saturday_morning_close > rec.saturday_afternoon_open)))

\* TRUE when no branch of the constraint raises.
check_schedule_times(rec) ==
    /\ ~(rec.weekday_morning_open < MinOpen)
    /\ ~(rec.saturday_active /\ rec.saturday_morning_open < MinOpen)
    /\ ~(rec.saturday_active /\ rec.saturday_afternoon_active
           /\ rec.saturday_afternoon_open < MinOpen)
    /\ ~(rec.weekday_afternoon_close > MaxClose)
    /\ ~(rec.saturday_active /\ rec.saturday_morning_close > MaxClose)
    /\ ~(rec.saturday_active /\ rec.saturday_afternoon_active
           /\ rec.saturday_afternoon_close > MaxClose)
    /\ ~(rec.weekday_morning_open >= rec.weekday_morning_close)
    /\ ~(rec.weekday_afternoon_open >= rec.weekday_afternoon_close)
    /\ ~(rec.weekday_morning_close > rec.weekday_afternoon_open)
    /\ (rec.saturday_active =>
          /\ ~(rec.saturday_morning_open >= rec.saturday_morning_close)
          /\ (rec.saturday_afternoon_active =>
                /\ ~(rec.saturday_afternoon_open >= rec.saturday_afternoon_close)
                /\ ~(rec.saturday_morning_close > rec.saturday_afternoon_open)))

schedule_valid(rec) == sql_constraints(rec) /\ check_schedule_times(rec)

\* Mutant: only confirmed appointments lock the schedule.
active_count_confirmed(db) ==
    Cardinality({i \in DOMAIN db : db[i].state \in {"confirmed"}})

\* search_count([('state', 'in', ['draft', 'confirmed'])])
active_count(db) ==
    Cardinality({i \in DOMAIN db : db[i].state \in {"draft", "confirmed"}})

----------------------------------------------------------------------------
(* _make_time *)

\* int(float_hours)
make_time_hours(float_hours) == float_hours \div TicksPerHour

\* round((float_hours % 1) * 60): Python rounds a tie to the even minute.
make_time_minutes(float_hours) ==
    LET frac == float_hours % TicksPerHour
        q == frac \div TicksPerMinute
        r == frac % TicksPerMinute
    IN  IF 2 * r < TicksPerMinute THEN q
        ELSE IF 2 * r > TicksPerMinute THEN q + 1
        ELSE IF q % 2 = 0 THEN q ELSE q + 1

\* dt.replace(hour=, minute=) raises ValueError outside 0..23 and 0..59.
make_time_raises(float_hours) ==
    \/ make_time_hours(float_hours) > 23
    \/ make_time_minutes(float_hours) > 59

make_time(dt, float_hours) ==
    (dt - (dt % TicksPerDay))
        + make_time_hours(float_hours) * TicksPerHour
        + make_time_minutes(float_hours) * TicksPerMinute

----------------------------------------------------------------------------
(* stylehub.appointment: derived fields *)

RECURSIVE sum_duration(_)
sum_duration(lines) ==
    IF lines = <<>> THEN 0 ELSE Head(lines).duration + sum_duration(Tail(lines))

RECURSIVE sum_price_unit(_)
sum_price_unit(lines) ==
    IF lines = <<>> THEN 0 ELSE Head(lines).price_unit + sum_price_unit(Tail(lines))

\* Mutant: both totals mapped from 'duration'.
compute_totals_of_durations(rec) ==
    [rec EXCEPT !.total_duration = sum_duration(rec.line_ids),
                !.total_amount = sum_duration(rec.line_ids)]

compute_totals(rec) ==
    [rec EXCEPT !.total_duration = sum_duration(rec.line_ids),
                !.total_amount = sum_price_unit(rec.line_ids)]

\* Mutant: the total is added as minutes, timedelta(minutes=total_duration).
compute_date_end_minutes(rec) ==
    [rec EXCEPT !.date_end = IF rec.total_duration # 0
                             THEN rec.date_start + rec.total_duration \div 60
                             ELSE rec.date_start]

\* date_start is required, so only total_duration decides the branch.
compute_date_end(rec) ==
    [rec EXCEPT !.date_end = IF rec.total_duration # 0
                             THEN rec.date_start + rec.total_duration
                             ELSE rec.date_start]

\* prior_done >= 5
VipPriorDone == 5
\* total_amount * 0.05
DiscountPercent == 5

\* search_count([partner_id =, state = done, date_start <])
prior_done(db, rec) ==
    Cardinality({j \in DOMAIN db :
                    /\ db[j].partner_id = rec.partner_id
                    /\ db[j].state = "done"
                    /\ db[j].date_start < rec.date_start})

\* Mutant: prior_done > 5, the threshold of is_frequent_client.
applies_discount_more_than(db, rec) == prior_done(db, rec) > VipPriorDone

\* Mutant: prior_done == 5, the discount of the 6th visit alone.
applies_discount_exactly(db, rec) == prior_done(db, rec) = VipPriorDone

applies_discount(db, rec) == prior_done(db, rec) >= VipPriorDone

compute_discount(db, i) ==
    LET rec == db[i]
        discount == IF applies_discount(db, rec)
                    THEN (rec.total_amount * DiscountPercent) \div 100
                    ELSE 0
    IN  [rec EXCEPT !.discount_amount = discount,
                    !.final_amount = rec.total_amount - discount]

\* The records whose _compute_discount a change of i's state, or i's
\* creation, triggers: 'partner_id.appointment_ids.state' reaches every
\* appointment of i's partner.
partner_appointments(db, i) ==
    {j \in DOMAIN db : db[j].partner_id = db[i].partner_id}

recompute_discount(db, ids) ==
    [j \in DOMAIN db |-> IF j \in ids THEN compute_discount(db, j) ELSE db[j]]

\* A change of i's date_start or lines: totals, date_end, then i's discount.
recompute_record(db, i) ==
    LET db2 == [db EXCEPT ![i] = compute_date_end(compute_totals(db[i]))]
    IN  recompute_discount(db2, {i})

----------------------------------------------------------------------------
(* res.partner: the stored fields of _compute_appointment_done_count *)

\* done_count > 5
VipDoneCount == 5

\* Mutant: done_count >= 5, the threshold of the discount.
compute_appointment_done_count_at_least(db, partner) ==
    LET done_count ==
            Cardinality({i \in DOMAIN db :
                            db[i].partner_id = partner /\ db[i].state = "done"})
    IN  [appointment_done_count |-> done_count,
         is_frequent_client |-> done_count >= VipDoneCount]

compute_appointment_done_count(db, partner) ==
    LET done_count ==
            Cardinality({i \in DOMAIN db :
                            db[i].partner_id = partner /\ db[i].state = "done"})
    IN  [appointment_done_count |-> done_count,
         is_frequent_client |-> done_count > VipDoneCount]

\* 'appointment_ids.state': the partners of the appointments that a
\* transaction created or whose state it wrote.
modified_partners(old, db) ==
    {db[i].partner_id :
        i \in {j \in DOMAIN db : j \notin DOMAIN old \/ old[j].state # db[j].state}}

recompute_partners(stored, old, db) ==
    [p \in DOMAIN stored |->
        IF p \in modified_partners(old, db)
        THEN compute_appointment_done_count(db, p)
        ELSE stored[p]]

----------------------------------------------------------------------------
(* stylehub.appointment: constraints.  Each yields "ok" or the exception. *)

\* Mutant: only an appointment that starts inside rec's interval conflicts.
check_stylist_overlap_starts_inside(db, i) ==
    LET rec == db[i]
    IN  IF rec.state = "cancelled" THEN "ok"
        ELSE IF \E j \in DOMAIN db :
                    /\ db[j].stylist_id = rec.stylist_id
                    /\ db[j].state # "cancelled"
                    /\ j # i
                    /\ db[j].date_start < rec.date_end
                    /\ db[j].date_start > rec.date_start
             THEN "overlap"
             ELSE "ok"

\* Mutant: <= and >= in the domain, touching intervals conflict.
check_stylist_overlap_touching(db, i) ==
    LET rec == db[i]
    IN  IF rec.state = "cancelled" THEN "ok"
        ELSE IF \E j \in DOMAIN db :
                    /\ db[j].stylist_id = rec.stylist_id
                    /\ db[j].state # "cancelled"
                    /\ j # i
                    /\ db[j].date_start <= rec.date_end
                    /\ db[j].date_end >= rec.date_start
             THEN "overlap"
             ELSE "ok"

\* Mutant: the domain without ('state', '!=', 'cancelled').
check_stylist_overlap_counts_cancelled(db, i) ==
    LET rec == db[i]
    IN  IF rec.state = "cancelled" THEN "ok"
        ELSE IF \E j \in DOMAIN db :
                    /\ db[j].stylist_id = rec.stylist_id
                    /\ j # i
                    /\ db[j].date_start < rec.date_end
                    /\ db[j].date_end > rec.date_start
             THEN "overlap"
             ELSE "ok"

check_stylist_overlap(db, i) ==
    LET rec == db[i]
    IN  IF rec.state = "cancelled" THEN "ok"
        ELSE IF \E j \in DOMAIN db :
                    /\ db[j].stylist_id = rec.stylist_id
                    /\ db[j].state # "cancelled"
                    /\ j # i
                    /\ db[j].date_start < rec.date_end
                    /\ db[j].date_end > rec.date_start
             THEN "overlap"
             ELSE "ok"

\* open <= start and end <= close, both made by _make_time on start's day.
in_window(start, end, open_hours, close_hours) ==
    /\ make_time(start, open_hours) <= start
    /\ end <= make_time(start, close_hours)

check_saturday(schedule, start, end) ==
    IF ~schedule.saturday_active THEN "saturday_closed"
    ELSE IF \/ make_time_raises(schedule.saturday_morning_open)
            \/ make_time_raises(schedule.saturday_morning_close)
         THEN "ValueError"
    ELSE IF /\ schedule.saturday_afternoon_active
            /\ \/ make_time_raises(schedule.saturday_afternoon_open)
               \/ make_time_raises(schedule.saturday_afternoon_close)
         THEN "ValueError"
    ELSE LET in_sat_morning ==
                 in_window(start, end, schedule.saturday_morning_open,
                           schedule.saturday_morning_close)
             in_sat_afternoon ==
                 /\ schedule.saturday_afternoon_active
                 /\ in_window(start, end, schedule.saturday_afternoon_open,
                              schedule.saturday_afternoon_close)
         IN  IF ~in_sat_morning /\ ~in_sat_afternoon THEN "outside_hours" ELSE "ok"

check_weekday(schedule, start, end) ==
    IF \/ make_time_raises(schedule.weekday_morning_open)
       \/ make_time_raises(schedule.weekday_morning_close)
       \/ make_time_raises(schedule.weekday_afternoon_open)
       \/ make_time_raises(schedule.weekday_afternoon_close)
    THEN "ValueError"
    ELSE LET in_morning ==
                 in_window(start, end, schedule.weekday_morning_open,
                           schedule.weekday_morning_close)
             in_afternoon ==
                 in_window(start, end, schedule.weekday_afternoon_open,
                           schedule.weekday_afternoon_close)
         IN  IF ~in_morning /\ ~in_afternoon THEN "outside_hours" ELSE "ok"

\* Mutant: without a schedule the validation is skipped, as the docstring
\* of the method still says.
check_business_hours_skip_unconfigured(scheds, start, end) ==
    IF scheds = <<>> THEN "ok"
    ELSE IF Weekday(start) = 6 THEN "sunday"
    ELSE IF Weekday(start) = 5 THEN check_saturday(scheds[1], start, end)
    ELSE check_weekday(scheds[1], start, end)

\* Mutant: no Sunday branch, Sunday falls through to the weekday hours.
check_business_hours_open_sunday(scheds, start, end) ==
    IF scheds = <<>> THEN "no_schedule"
    ELSE IF Weekday(start) = 5 THEN check_saturday(scheds[1], start, end)
    ELSE check_weekday(scheds[1], start, end)

\* schedule = search([], limit=1): the record with the lowest id.
check_business_hours(scheds, start, end) ==
    IF scheds = <<>> THEN "no_schedule"
    ELSE IF Weekday(start) = 6 THEN "sunday"
    ELSE IF Weekday(start) = 5 THEN check_saturday(scheds[1], start, end)
    ELSE check_weekday(scheds[1], start, end)

\* _validate_fields runs the constraint methods in the order of their names.
first_error(e1, e2) == IF e1 # "ok" THEN e1 ELSE e2

validate_hours_and_overlap(scheds, db, i) ==
    first_error(check_business_hours(scheds, db[i].date_start, db[i].date_end),
                check_stylist_overlap(db, i))

----------------------------------------------------------------------------
(* State *)

NoProbe == [start |-> 0, end |-> 0, verdict |-> "none"]

\* The database sessions and their open transactions.
Sessions == {"s1", "s2"}
NoTxn == [status |-> "idle"]
NoTxns == [session \in Sessions |-> NoTxn]

\* Mutant: the rows written before the exception stay written.
commit_without_rollback(db, error) ==
    /\ appts' = db
    /\ partners' = recompute_partners(partners, appts, db)
    /\ result' = error
    /\ UNCHANGED <<schedules, stylists, services, txns, probe>>

\* A transaction: commit db when no exception was raised, roll back otherwise.
commit(db, error) ==
    /\ appts' = IF error = "ok" THEN db ELSE appts
    /\ partners' = IF error = "ok" THEN recompute_partners(partners, appts, db)
                   ELSE partners
    /\ result' = error
    /\ UNCHANGED <<schedules, stylists, services, txns, probe>>

\* The partners of a database whose stored fields are up to date.
partners_of(db) == [p \in Partners |-> compute_appointment_done_count(db, p)]

Init ==
    /\ schedules = <<>>
    /\ appts = <<>>
    /\ partners = partners_of(<<>>)
    /\ stylists = AllActive
    /\ services = Catalog
    /\ txns = NoTxns
    /\ result = "ok"
    /\ probe = NoProbe

----------------------------------------------------------------------------
(* stylehub.appointment: create and write *)

\* The record as inserted: state defaults to draft, the stored computed
\* fields are filled by the recomputation that follows.
new_appointment(partner, stylist, start, lines) ==
    [partner_id |-> partner, stylist_id |-> stylist, date_start |-> start,
     line_ids |-> lines, total_duration |-> 0, total_amount |-> 0,
     date_end |-> start, discount_amount |-> 0, final_amount |-> 0,
     state |-> "draft"]

create_appointment(cap, partner, stylist, start, lines) ==
    /\ Len(appts) < cap
    /\ LET i == Len(appts) + 1
           rec == compute_date_end(compute_totals(
                      new_appointment(partner, stylist, start, lines)))
           db1 == Append(appts, rec)
           db2 == recompute_discount(db1, partner_appointments(db1, i))
       IN  commit(db2, validate_hours_and_overlap(schedules, db2, i))

write_date_start(i, start) ==
    /\ i \in DOMAIN appts
    /\ LET db1 == [appts EXCEPT ![i].date_start = start]
           db2 == recompute_record(db1, i)
       IN  commit(db2, validate_hours_and_overlap(schedules, db2, i))

\* stylist_id is watched by _check_stylist_overlap alone.
write_stylist(i, stylist) ==
    /\ i \in DOMAIN appts
    /\ LET db1 == [appts EXCEPT ![i].stylist_id = stylist]
       IN  commit(db1, check_stylist_overlap(db1, i))

\* CHECK(price_unit >= 0) and CHECK(duration > 0) of the line table.
check_line(line) == line.price_unit >= 0 /\ line.duration > 0

\* A write of line_ids: the lines as they are after it.  The totals and
\* date_end are recomputed, and the recomputation of date_end runs the
\* constraints that watch it.
write_lines(i, lines) ==
    LET db1 == [appts EXCEPT ![i].line_ids = lines]
        db2 == recompute_record(db1, i)
    IN  commit(db2,
               IF \E k \in DOMAIN lines : ~check_line(lines[k]) THEN "invalid_line"
               ELSE validate_hours_and_overlap(schedules, db2, i))

add_line(cap, i, line) ==
    /\ i \in DOMAIN appts
    /\ Len(appts[i].line_ids) < cap
    /\ write_lines(i, Append(appts[i].line_ids, line))

remove_line(i, k) ==
    /\ i \in DOMAIN appts
    /\ k \in DOMAIN appts[i].line_ids
    /\ write_lines(i,
                   [n \in 1..(Len(appts[i].line_ids) - 1) |->
                       IF n < k THEN appts[i].line_ids[n] ELSE appts[i].line_ids[n + 1]])

write_line_duration(i, k, duration) ==
    /\ i \in DOMAIN appts
    /\ k \in DOMAIN appts[i].line_ids
    /\ write_lines(i,
                   [appts[i].line_ids EXCEPT ![k].duration = duration])

\* A line of a form before a service is chosen: the Float fields are 0.
NoService == "none"
NewLine == [service_id |-> NoService, price_unit |-> 0, duration |-> 0]

\* Mutant: the price is copied, the duration is left as it was.
onchange_service_id_price_only(line, catalog, service) ==
    IF service # NoService
    THEN [line EXCEPT !.service_id = service,
                      !.price_unit = catalog[service].price]
    ELSE [line EXCEPT !.service_id = service, !.price_unit = 0, !.duration = 0]

onchange_service_id(line, catalog, service) ==
    IF service # NoService
    THEN [line EXCEPT !.service_id = service,
                      !.price_unit = catalog[service].price,
                      !.duration = catalog[service].duration]
    ELSE [line EXCEPT !.service_id = service, !.price_unit = 0, !.duration = 0]

\* A new line of the form, its service chosen, saved with the appointment.
add_service_line(cap, i, service) ==
    add_line(cap, i, onchange_service_id(NewLine, services, service))

----------------------------------------------------------------------------
(* stylehub.service and stylehub.stylist: write *)

\* CHECK(price >= 0) and CHECK(duration > 0) of the service table.
service_write(name, price, duration) ==
    LET error == IF price >= 0 /\ duration > 0 THEN "ok" ELSE "invalid_service"
    IN  /\ services' = IF error = "ok"
                       THEN [services EXCEPT ![name] = [price |-> price,
                                                        duration |-> duration]]
                       ELSE services
        /\ result' = error
        /\ UNCHANGED <<schedules, appts, partners, stylists, txns, probe>>

\* Archiving and restoring a stylist.
stylist_write_active(stylist, active) ==
    /\ stylists' = [stylists EXCEPT ![stylist].active = active]
    /\ result' = "ok"
    /\ UNCHANGED <<schedules, appts, partners, services, txns, probe>>

----------------------------------------------------------------------------
(* stylehub.appointment: lifecycle *)

Actions == {"action_confirm", "action_done", "action_cancel", "action_reset_draft"}

\* Mutant: action_cancel without its guard.
action_allowed_cancel_done(op, state) ==
    CASE op = "action_confirm" -> state = "draft"
      [] op = "action_done" -> state = "confirmed"
      [] op = "action_cancel" -> TRUE
      [] op = "action_reset_draft" -> state = "cancelled"

\* Mutant: action_confirm guarded like action_cancel, state != 'done'.
action_allowed_confirm_not_done(op, state) ==
    CASE op = "action_confirm" -> state # "done"
      [] op = "action_done" -> state = "confirmed"
      [] op = "action_cancel" -> state # "done"
      [] op = "action_reset_draft" -> state = "cancelled"

\* Mutant: action_reset_draft without its guard.
action_allowed_reset_done(op, state) ==
    CASE op = "action_confirm" -> state = "draft"
      [] op = "action_done" -> state = "confirmed"
      [] op = "action_cancel" -> state # "done"
      [] op = "action_reset_draft" -> TRUE

\* The guard of each button: FALSE where it raises UserError.
action_allowed(op, state) ==
    CASE op = "action_confirm" -> state = "draft"
      [] op = "action_done" -> state = "confirmed"
      [] op = "action_cancel" -> state # "done"
      [] op = "action_reset_draft" -> state = "cancelled"

action_target(op) ==
    CASE op = "action_confirm" -> "confirmed"
      [] op = "action_done" -> "done"
      [] op = "action_cancel" -> "cancelled"
      [] op = "action_reset_draft" -> "draft"

\* rec.state = ...: one write, which recomputes the discounts that depend on
\* the partner's appointment states and runs _check_stylist_overlap.
write_state(db, i, state) ==
    LET db1 == [db EXCEPT ![i].state = state]
    IN  recompute_discount(db1, partner_appointments(db1, i))

\* Mutant: 'state' missing from the fields _check_stylist_overlap watches.
validate_state_unwatched(db, i) == "ok"

\* The constraints a write of state runs: 'state' is watched by
\* _check_stylist_overlap alone.
validate_state(db, i) == check_stylist_overlap(db, i)

\* for rec in self: guard, then write.  The first exception ends the loop.
RECURSIVE run_action(_, _, _)
run_action(op, db, ids) ==
    IF ids = <<>> THEN [db |-> db, error |-> "ok"]
    ELSE LET i == Head(ids)
         IN  IF ~action_allowed(op, db[i].state)
             THEN [db |-> db, error |-> "invalid_transition"]
             ELSE LET db1 == write_state(db, i, action_target(op))
                      error == validate_state(db1, i)
                  IN  IF error # "ok" THEN [db |-> db1, error |-> error]
                      ELSE run_action(op, db1, Tail(ids))

\* Recordsets: sequences of distinct ids.
RecordSets(db) ==
    {ids \in SeqsUpTo(DOMAIN db, MaxBatch) :
        /\ ids # <<>>
        /\ \A m, n \in DOMAIN ids : m # n => ids[m] # ids[n]}

\* Mutant: every record of the loop in a transaction of its own.
action_each_committed(op, ids) ==
    /\ ids # <<>>
    /\ \A m \in DOMAIN ids : ids[m] \in DOMAIN appts
    /\ \A m, n \in DOMAIN ids : m # n => ids[m] # ids[n]
    /\ LET out == run_action(op, appts, ids)
       IN  commit_without_rollback(out.db, out.error)

\* One button call on a recordset is one request, hence one transaction.
action(op, ids) ==
    /\ ids # <<>>
    /\ \A m \in DOMAIN ids : ids[m] \in DOMAIN appts
    /\ \A m, n \in DOMAIN ids : m # n => ids[m] # ids[n]
    /\ LET out == run_action(op, appts, ids)
       IN  commit(out.db, out.error)

action_confirm(ids) == action("action_confirm", ids)
action_done(ids) == action("action_done", ids)
action_cancel(ids) == action("action_cancel", ids)
action_reset_draft(ids) == action("action_reset_draft", ids)

----------------------------------------------------------------------------
(* stylehub.schedule: create, write, unlink *)

schedule_commit(scheds, error) ==
    /\ schedules' = IF error = "ok" THEN scheds ELSE schedules
    /\ result' = error
    /\ UNCHANGED <<appts, partners, stylists, services, txns, probe>>

\* create(vals_list): one guard for the whole list, then every record of it.
schedule_create(vals_list) ==
    schedule_commit(schedules \o vals_list,
        IF Len(schedules) > 0 THEN "already_exists"
        ELSE IF \E k \in DOMAIN vals_list : ~schedule_valid(vals_list[k])
             THEN "invalid_schedule"
             ELSE "ok")

schedule_write(k, vals) ==
    /\ k \in DOMAIN schedules
    /\ schedule_commit([schedules EXCEPT ![k] = vals],
           IF active_count(appts) > 0 THEN "locked"
           ELSE IF ~schedule_valid(vals) THEN "invalid_schedule"
           ELSE "ok")

\* Mutant: unlink guarded like write, refused only while appointments are
\* active.
schedule_unlink_when_unlocked ==
    schedule_commit(<<>>, IF active_count(appts) > 0 THEN "locked" ELSE "ok")

schedule_unlink ==
    schedule_commit(schedules, "protected")

----------------------------------------------------------------------------
(* The program *)

Next ==
    \/ \E p \in BookingPartners, s \in Stylists, t \in Starts, ls \in LineSeqs :
           create_appointment(MaxAppts, p, s, t, ls)
    \/ \E i \in DOMAIN appts, t \in Starts : write_date_start(i, t)
    \/ \E i \in DOMAIN appts, s \in Stylists : write_stylist(i, s)
    \/ \E i \in DOMAIN appts, line \in LineVals : add_line(MaxLines, i, line)
    \/ \E i \in DOMAIN appts, k \in 1..MaxLines : remove_line(i, k)
    \/ \E i \in DOMAIN appts, k \in 1..MaxLines, d \in EditDurations :
           write_line_duration(i, k, d)
    \/ \E ids \in RecordSets(appts) : action_confirm(ids)
    \/ \E ids \in RecordSets(appts) : action_done(ids)
    \/ \E ids \in RecordSets(appts) : action_cancel(ids)
    \/ \E ids \in RecordSets(appts) : action_reset_draft(ids)
    \/ \E vals_list \in ScheduleBatches : schedule_create(vals_list)
    \/ \E k \in DOMAIN schedules, vals \in ScheduleVals : schedule_write(k, vals)
    \/ schedule_unlink

Spec == Init /\ [][Next]_vars

----------------------------------------------------------------------------
(* The schedule alone: created and written with the defaults in which one  *)
(* hour is replaced, under each setting of the two Saturday flags.          *)

HourFields ==
    {"weekday_morning_open", "weekday_morning_close",
     "weekday_afternoon_open", "weekday_afternoon_close",
     "saturday_morning_open", "saturday_morning_close",
     "saturday_afternoon_open", "saturday_afternoon_close"}

\* 07:00, 09:00, 13:00, 15:00, 21:00 and 22:30.
HourValues ==
    {Hrs(7, 0, 0), Hrs(9, 0, 0), Hrs(13, 0, 0), Hrs(15, 0, 0), Hrs(21, 0, 0),
     Hrs(22, 30, 0)}

ScheduleEdits ==
    {[[DefaultSchedule EXCEPT !.saturday_active = sat,
                              !.saturday_afternoon_active = aft]
         EXCEPT ![f] = v] :
        sat \in BOOLEAN, aft \in BOOLEAN, f \in HourFields, v \in HourValues}

NextSchedule ==
    \/ \E vals \in ScheduleEdits : schedule_create(<<vals>>)
    \/ \E vals \in ScheduleEdits : schedule_create(<<vals, EarlySchedule>>)
    \/ \E k \in DOMAIN schedules, vals \in ScheduleEdits : schedule_write(k, vals)
    \/ schedule_unlink

SpecSchedule == Init /\ [][NextSchedule]_vars

----------------------------------------------------------------------------
(* One morning of half-hour slots: up to MaxSlots appointments of p1 on     *)
(* Monday at 10:00, 10:15 and 10:30, while the schedule is written between  *)
(* the defaults and the late opening.                                       *)

MaxSlots == 3

SlotStarts == {At(0, 10, 0), At(0, 10, 15), At(0, 10, 30)}

InitSlots ==
    /\ schedules = <<DefaultSchedule>>
    /\ appts = <<>>
    /\ partners = partners_of(<<>>)
    /\ stylists = AllActive
    /\ services = Catalog
    /\ txns = NoTxns
    /\ result = "ok"
    /\ probe = NoProbe

NextSlots ==
    \/ \E s \in Stylists, t \in SlotStarts :
           create_appointment(MaxSlots, "p1", s, t, <<Wash>>)
    \/ \E i \in DOMAIN appts : action_confirm(<<i>>)
    \/ \E i \in DOMAIN appts : action_done(<<i>>)
    \/ \E i \in DOMAIN appts : action_cancel(<<i>>)
    \/ \E i \in DOMAIN appts : action_reset_draft(<<i>>)
    \/ \E k \in DOMAIN schedules, vals \in {DefaultSchedule, LateSchedule} :
           schedule_write(k, vals)

SpecSlots == InitSlots /\ [][NextSlots]_vars

----------------------------------------------------------------------------
(* The calendar of two stylists on that morning: appointments are booked,   *)
(* moved between the slots and the stylists, and cancelled.                  *)

NextOverlap ==
    \/ \E s \in Stylists, t \in SlotStarts :
           create_appointment(MaxAppts, "p1", s, t, <<Wash>>)
    \/ \E i \in DOMAIN appts, t \in SlotStarts : write_date_start(i, t)
    \/ \E i \in DOMAIN appts, s \in Stylists : write_stylist(i, s)
    \/ \E i \in DOMAIN appts : action_cancel(<<i>>)

SpecOverlap == InitSlots /\ [][NextOverlap]_vars

----------------------------------------------------------------------------
(* Two sessions creating appointments at once.  A create request inserts   *)
(* its row and runs the constraints inside its own transaction, whose       *)
(* searches see the committed rows and its own; the commit that follows     *)
(* adds the row to the table.  Inserts of distinct rows never conflict.     *)

MaxTxnAppts == 2

\* The request up to the end of its validation.
txn_create(session, partner, stylist, start, lines) ==
    /\ txns[session].status = "idle"
    /\ Len(appts) + Cardinality({o \in Sessions : txns[o].status # "idle"}) < MaxTxnAppts
    /\ LET i == Len(appts) + 1
           rec == compute_date_end(compute_totals(
                      new_appointment(partner, stylist, start, lines)))
           db1 == Append(appts, rec)
           db2 == recompute_discount(db1, partner_appointments(db1, i))
           error == validate_hours_and_overlap(schedules, db2, i)
       IN  /\ txns' = [txns EXCEPT ![session] =
                          IF error = "ok" THEN [status |-> "validated", row |-> db2[i]]
                          ELSE NoTxn]
           /\ result' = IF error = "ok" THEN result ELSE error
           /\ UNCHANGED <<schedules, appts, partners, stylists, services, probe>>

\* The commit of a validated request.
txn_commit(session) ==
    /\ txns[session].status = "validated"
    /\ LET db == Append(appts, txns[session].row)
       IN  /\ appts' = db
           /\ partners' = recompute_partners(partners, appts, db)
    /\ txns' = [txns EXCEPT ![session] = NoTxn]
    /\ result' = "ok"
    /\ UNCHANGED <<schedules, stylists, services, probe>>

InitConcurrent ==
    /\ schedules = <<DefaultSchedule>>
    /\ appts = <<>>
    /\ partners = partners_of(<<>>)
    /\ stylists = AllActive
    /\ services = Catalog
    /\ txns = NoTxns
    /\ result = "ok"
    /\ probe = NoProbe

NextConcurrent ==
    \/ \E session \in Sessions, p \in Partners, s \in Stylists, t \in SlotStarts :
           txn_create(session, p, s, t, <<Wash>>)
    \/ \E session \in Sessions : txn_commit(session)
    \/ \E i \in DOMAIN appts : action_cancel(<<i>>)

SpecConcurrent == InitConcurrent /\ [][NextConcurrent]_vars

----------------------------------------------------------------------------
(* The stylist registry: stylists are archived and restored while          *)
(* appointments are created for them, confirmed and cancelled.              *)

NextRegistry ==
    \/ \E s \in Stylists, t \in SlotStarts :
           create_appointment(MaxAppts, "p1", s, t, <<Wash>>)
    \/ \E s \in Stylists, active \in BOOLEAN : stylist_write_active(s, active)
    \/ \E i \in DOMAIN appts : action_confirm(<<i>>)
    \/ \E i \in DOMAIN appts : action_cancel(<<i>>)

SpecRegistry == InitSlots /\ [][NextRegistry]_vars

----------------------------------------------------------------------------
(* The catalog: one appointment whose lines are filled from the catalog    *)
(* while the services' prices and durations are written.                    *)

MaxCatalogLines == 2

\* -1.00, 20.00 and 120.00.
CatalogPrices == {-100, 2000, 12000}
CatalogDurations == {0, TicksPerHour \div 2, TicksPerHour}

NextCatalog ==
    \/ create_appointment(1, "p1", "ana", At(0, 10, 0), <<>>)
    \/ \E i \in DOMAIN appts, service \in ServiceNames \cup {NoService} :
           add_service_line(MaxCatalogLines, i, service)
    \/ \E i \in DOMAIN appts, k \in 1..MaxCatalogLines : remove_line(i, k)
    \/ \E name \in ServiceNames, price \in CatalogPrices, duration \in CatalogDurations :
           service_write(name, price, duration)

SpecCatalog == InitSlots /\ [][NextCatalog]_vars

----------------------------------------------------------------------------
(* One appointment and its lines: up to MaxDetailLines lines of two        *)
(* services, every duration edit, under the default schedule.              *)

DetailLineVals == {Cut, Wash}
DetailDurations == {0, TicksPerHour \div 2, TicksPerHour}
\* Monday 10:00 and 12:30: a long appointment at 12:30 runs past 13:30.
DetailStarts == {At(0, 10, 0), At(0, 12, 30)}

InitLines ==
    /\ schedules = <<DefaultSchedule>>
    /\ appts = <<>>
    /\ partners = partners_of(<<>>)
    /\ stylists = AllActive
    /\ services = Catalog
    /\ txns = NoTxns
    /\ result = "ok"
    /\ probe = NoProbe

NextLines ==
    \/ \E t \in DetailStarts, ls \in SeqsUpTo(DetailLineVals, MaxDetailLines) :
           create_appointment(1, "p1", "ana", t, ls)
    \/ \E i \in DOMAIN appts, t \in DetailStarts : write_date_start(i, t)
    \/ \E i \in DOMAIN appts, line \in DetailLineVals : add_line(MaxDetailLines, i, line)
    \/ \E i \in DOMAIN appts, k \in 1..MaxDetailLines : remove_line(i, k)
    \/ \E i \in DOMAIN appts, k \in 1..MaxDetailLines, d \in DetailDurations :
           write_line_duration(i, k, d)
    \/ \E ids \in RecordSets(appts) : action_confirm(ids)
    \/ \E ids \in RecordSets(appts) : action_done(ids)
    \/ \E ids \in RecordSets(appts) : action_cancel(ids)
    \/ \E ids \in RecordSets(appts) : action_reset_draft(ids)

SpecLines == InitLines /\ [][NextLines]_vars

----------------------------------------------------------------------------
(* _check_business_hours as a function of the schedule and the interval:   *)
(* the schedule is any valid one of HoursSchedules, check_hours applies the *)
(* validation to an interval and keeps the verdict in probe.               *)

HoursSchedules ==
    {sch \in [weekday_morning_open : {Hrs(9, 30, 0), Hrs(9, 30, 1)},
              weekday_morning_close : {Hrs(13, 30, 0), Hrs(13, 59, 2)},
              weekday_afternoon_open : {Hrs(16, 30, 0)},
              weekday_afternoon_close : {Hrs(20, 30, 0)},
              saturday_active : BOOLEAN,
              saturday_morning_open : {Hrs(9, 30, 0), Hrs(9, 30, 1)},
              saturday_morning_close : {Hrs(13, 59, 2), Hrs(14, 0, 0)},
              saturday_afternoon_active : BOOLEAN,
              saturday_afternoon_open : {Hrs(13, 0, 0), Hrs(16, 30, 0)},
              saturday_afternoon_close : {Hrs(20, 0, 0)}] :
        schedule_valid(sch)}

\* Monday 09:30, 13:00 and 17:00, Friday 20:00, Saturday 09:30, 13:30 and
\* 17:00, Sunday 10:00.
HoursStarts ==
    {At(0, 9, 30), At(0, 13, 0), At(0, 17, 0), At(4, 20, 0),
     At(5, 9, 30), At(5, 13, 30), At(5, 17, 0), At(6, 10, 0)}

HoursDurations == {0, TicksPerHour \div 2, TicksPerHour}

InitHours ==
    /\ schedules \in {<<sch>> : sch \in HoursSchedules}
    /\ appts = <<>>
    /\ partners = partners_of(<<>>)
    /\ stylists = AllActive
    /\ services = Catalog
    /\ txns = NoTxns
    /\ result = "ok"
    /\ probe = NoProbe

check_hours(start, duration) ==
    /\ probe' = [start |-> start, end |-> start + duration,
                 verdict |-> check_business_hours(schedules, start, start + duration)]
    /\ UNCHANGED <<schedules, appts, partners, stylists, services, txns, result>>

NextHours == \E t \in HoursStarts, d \in HoursDurations : check_hours(t, d)

SpecHours == InitHours /\ [][NextHours]_vars

----------------------------------------------------------------------------
(* A client with a history: MaxHistory - 1 or MaxHistory appointments of   *)
(* p1 with ana, one a day at 10:00 from Monday on, each created, confirmed  *)
(* and completed under the default schedule before the next one.            *)

\* The day of the i-th visit: Monday to Saturday, never a Sunday.
VisitDay(i) == (i - 1) + (i - 1) \div 6

History(k) ==
    LET db == [i \in 1..k |->
                  [compute_date_end(compute_totals(
                       new_appointment("p1", "ana", At(VisitDay(i), 10, 0), <<Cut>>)))
                   EXCEPT !.state = "done"]]
    IN  recompute_discount(db, DOMAIN db)

\* After the first visit, at the start of the last seeded visit and after it.
LoyaltyStarts ==
    {At(0, 11, 0), At(MaxHistory - 1, 10, 0), At(MaxHistory - 1, 11, 0)}

InitLoyalty ==
    /\ schedules = <<DefaultSchedule>>
    /\ appts \in {History(k) : k \in (MaxHistory - 1)..MaxHistory}
    /\ partners = partners_of(appts)
    /\ stylists = AllActive
    /\ services = Catalog
    /\ txns = NoTxns
    /\ result = "ok"
    /\ probe = NoProbe

NextLoyalty ==
    \/ \E p \in Partners, s \in Stylists, t \in LoyaltyStarts :
           create_appointment(MaxHistory + 1, p, s, t, <<Cut>>)
    \/ \E i \in DOMAIN appts : action_confirm(<<i>>)
    \/ \E i \in DOMAIN appts : action_done(<<i>>)
    \/ \E i \in DOMAIN appts : action_cancel(<<i>>)
    \/ \E i \in DOMAIN appts : action_reset_draft(<<i>>)

SpecLoyalty == InitLoyalty /\ [][NextLoyalty]_vars

----------------------------------------------------------------------------
(* The same client further on: MaxHistory or MaxHistory + 1 done visits,   *)
(* then bookings an hour after the MaxHistory-th visit and in the week      *)
(* after the history.                                                       *)

LaterStarts ==
    {At(VisitDay(MaxHistory), 11, 0), At(VisitDay(MaxHistory + 2) + 7, 10, 0)}

InitLater ==
    /\ schedules = <<DefaultSchedule>>
    /\ appts \in {History(k) : k \in MaxHistory..(MaxHistory + 1)}
    /\ partners = partners_of(appts)
    /\ stylists = AllActive
    /\ services = Catalog
    /\ txns = NoTxns
    /\ result = "ok"
    /\ probe = NoProbe

NextLater ==
    \/ \E p \in Partners, s \in Stylists, t \in LaterStarts :
           create_appointment(MaxHistory + 2, p, s, t, <<Cut>>)
    \/ \E i \in DOMAIN appts : action_confirm(<<i>>)
    \/ \E i \in DOMAIN appts : action_done(<<i>>)
    \/ \E i \in DOMAIN appts : action_cancel(<<i>>)
    \/ \E i \in DOMAIN appts : action_reset_draft(<<i>>)

SpecLater == InitLater /\ [][NextLater]_vars

----------------------------------------------------------------------------
(* The bills of that client: as SpecLater, and the appointments booked      *)
(* after the history get a second line and lose lines.                      *)

MaxBillLines == 2

NextBill ==
    \/ NextLater
    \/ \E i \in DOMAIN appts :
           i > MaxHistory /\ add_line(MaxBillLines, i, Wash)
    \/ \E i \in DOMAIN appts, k \in 1..MaxBillLines :
           i > MaxHistory /\ remove_line(i, k)

SpecBill == InitLater /\ [][NextBill]_vars

----------------------------------------------------------------------------
(* The history rewritten: as SpecLater for p1, and the date_start of any    *)
(* appointment, done ones included, is edited to one of the later starts.   *)

NextRetro ==
    \/ \E s \in Stylists, t \in LaterStarts :
           create_appointment(MaxHistory + 2, "p1", s, t, <<Cut>>)
    \/ \E i \in DOMAIN appts : action_confirm(<<i>>)
    \/ \E i \in DOMAIN appts : action_done(<<i>>)
    \/ \E i \in DOMAIN appts, t \in LaterStarts : write_date_start(i, t)

SpecRetro == InitLater /\ [][NextRetro]_vars

----------------------------------------------------------------------------
(* Properties *)

Active(rec) == rec.state \in {"draft", "confirmed"}

\* C1: after any sequence of operations, two distinct appointments of the
\* same stylist that are both not cancelled do not overlap:
\* A.date_start >= B.date_end or A.date_end <= B.date_start.
NoStylistOverlap ==
    \A i, j \in DOMAIN appts :
        (/\ i # j
         /\ appts[i].stylist_id = appts[j].stylist_id
         /\ appts[i].state # "cancelled"
         /\ appts[j].state # "cancelled")
        => \/ appts[i].date_start >= appts[j].date_end
           \/ appts[i].date_end <= appts[j].date_start

\* Two live appointments of one stylist touch at an endpoint, and the last
\* request was refused for overlapping.
NoStylistOverlapWitness ==
    /\ result = "overlap"
    /\ \E i, j \in DOMAIN appts :
           /\ i # j
           /\ appts[i].stylist_id = appts[j].stylist_id
           /\ Active(appts[i]) /\ Active(appts[j])
           /\ appts[i].date_start < appts[i].date_end
           /\ appts[i].date_end = appts[j].date_start

\* C2: an appointment starts in draft, and every change of its state
\* follows one of the edges draft->confirmed, confirmed->done,
\* draft->cancelled, confirmed->cancelled, cancelled->cancelled,
\* cancelled->draft; a done appointment stays done.
LifecycleEdges ==
    {<<"draft", "confirmed">>, <<"confirmed", "done">>, <<"draft", "cancelled">>,
     <<"confirmed", "cancelled">>, <<"cancelled", "cancelled">>, <<"cancelled", "draft">>}

LifecycleStep ==
    /\ \A i \in DOMAIN appts :
           /\ i \in DOMAIN appts'
           /\ \/ appts'[i].state = appts[i].state
              \/ <<appts[i].state, appts'[i].state>> \in LifecycleEdges
           /\ appts[i].state = "done" => appts'[i].state = "done"
    /\ \A i \in DOMAIN appts' \ DOMAIN appts : appts'[i].state = "draft"

StateFollowsLifecycle == [][LifecycleStep]_vars

\* A done appointment after a button on it was refused.
StateFollowsLifecycleWitness ==
    /\ result = "invalid_transition"
    /\ \E i \in DOMAIN appts : appts[i].state = "done"

\* C3: a transition requested from a state its guard forbids (confirm from
\* other than draft, complete from other than confirmed, cancel from done,
\* reset from other than cancelled) fails and leaves every state unchanged.
Forbidden(op, state) ==
    \/ op = "action_confirm" /\ state # "draft"
    \/ op = "action_done" /\ state # "confirmed"
    \/ op = "action_cancel" /\ state = "done"
    \/ op = "action_reset_draft" /\ state # "cancelled"

\* Either the step is a refusal, or it is no forbidden request.
ForbiddenStep ==
    \/ /\ result' # "ok"
       /\ appts' = appts
    \/ \A op \in Actions, ids \in RecordSets(appts) :
           ~(/\ \E k \in DOMAIN ids : Forbidden(op, appts[ids[k]].state)
             /\ action(op, ids))

ForbiddenTransitionFails == [][ForbiddenStep]_vars

\* A button was refused while one appointment is confirmed and another
\* cancelled.
ForbiddenTransitionFailsWitness ==
    /\ result = "invalid_transition"
    /\ \E i, j \in DOMAIN appts :
           appts[i].state = "confirmed" /\ appts[j].state = "cancelled"

\* C4: every draft or confirmed appointment passes the business-hours
\* validation against the schedule configured in the same state.
ActiveWithinSchedule ==
    \A i \in DOMAIN appts :
        Active(appts[i])
        => check_business_hours(schedules, appts[i].date_start, appts[i].date_end) = "ok"

\* C5: while no schedule exists every creation of an appointment is
\* refused, so whenever an appointment exists a schedule exists.
CreateWithoutScheduleStep ==
    \A p \in BookingPartners, s \in Stylists, t \in Starts, ls \in LineSeqs :
        (schedules = <<>> /\ create_appointment(MaxAppts, p, s, t, ls))
        => /\ result' = "no_schedule"
           /\ appts' = appts

Midnight(start) == start - (start % TicksPerDay)

Contained(start, end, open_hours, close_hours) ==
    /\ Midnight(start) + open_hours <= start
    /\ end <= Midnight(start) + close_hours

Probed == probe.verdict # "none"

\* C6: from Monday to Friday the validation accepts exactly the intervals
\* contained in the morning window or in the afternoon window.
WeekdayAcceptsIffContained ==
    (Probed /\ Weekday(probe.start) \in 0..4)
    => (probe.verdict = "ok"
        <=> \/ Contained(probe.start, probe.end, schedules[1].weekday_morning_open,
                         schedules[1].weekday_morning_close)
            \/ Contained(probe.start, probe.end, schedules[1].weekday_afternoon_open,
                         schedules[1].weekday_afternoon_close))

\* C7: on Saturday the validation refuses when saturday_active is false,
\* and otherwise accepts exactly the intervals contained in the morning
\* window or, with saturday_afternoon_active, in the afternoon window.
SaturdayAcceptsIffContained ==
    (Probed /\ Weekday(probe.start) = 5)
    => (probe.verdict = "ok"
        <=> /\ schedules[1].saturday_active
            /\ \/ Contained(probe.start, probe.end, schedules[1].saturday_morning_open,
                            schedules[1].saturday_morning_close)
               \/ /\ schedules[1].saturday_afternoon_active
                  /\ Contained(probe.start, probe.end,
                               schedules[1].saturday_afternoon_open,
                               schedules[1].saturday_afternoon_close))

\* C8: the validation refuses a Sunday start under every schedule, and no
\* stored appointment starts on a Sunday.
SundayInstants == {At(6, 0, 0), At(6, 10, 0), At(6, 17, 0), At(13, 10, 0)}

SundayRefusedByEverySchedule ==
    \A sch \in HoursSchedules \cup {DefaultSchedule, LateSchedule},
       t \in SundayInstants, d \in HoursDurations :
        check_business_hours(<<sch>>, t, t + d) = "sunday"

NoSundayAppointment ==
    /\ \A i \in DOMAIN appts : Weekday(appts[i].date_start) # 6
    /\ SundayRefusedByEverySchedule

\* A Sunday request was refused while a schedule and an appointment exist.
NoSundayAppointmentWitness ==
    /\ result = "sunday"
    /\ schedules # <<>>
    /\ appts # <<>>

\* C9: date_end is date_start plus the durations of the current lines,
\* and date_start itself without lines.
DurationOfLines(lines) ==
    LET partial[n \in 0..Len(lines)] ==
            IF n = 0 THEN 0 ELSE partial[n - 1] + lines[n].duration
    IN  partial[Len(lines)]

DateEndIsStartPlusDurations ==
    \A i \in DOMAIN appts :
        /\ appts[i].date_end = appts[i].date_start + DurationOfLines(appts[i].line_ids)
        /\ appts[i].line_ids = <<>> => appts[i].date_end = appts[i].date_start

\* An appointment of three lines that do not all last the same.
DateEndIsStartPlusDurationsWitness ==
    \E i \in DOMAIN appts :
        /\ Len(appts[i].line_ids) = 3
        /\ appts[i].line_ids[1].duration # appts[i].line_ids[3].duration
        /\ appts[i].date_end = appts[i].date_start + 2 * TicksPerHour
        /\ result = "ok"

\* C10: the discount is 5% of total_amount when at least 5 done
\* appointments of the client start strictly earlier, else 0, and
\* final_amount is total_amount less the discount.
EarlierDone(i) ==
    {j \in DOMAIN appts :
        /\ appts[j].partner_id = appts[i].partner_id
        /\ appts[j].state = "done"
        /\ appts[j].date_start < appts[i].date_start}

DiscountAsOfStart ==
    \A i \in DOMAIN appts :
        /\ appts[i].discount_amount =
               IF Cardinality(EarlierDone(i)) >= 5
               THEN (appts[i].total_amount * 5) \div 100
               ELSE 0
        /\ appts[i].final_amount = appts[i].total_amount - appts[i].discount_amount

\* Total 100: one appointment with 5 earlier done visits pays 95, another
\* with 4 pays 100.
DiscountAsOfStartWitness ==
    \E i, j \in DOMAIN appts :
        /\ Cardinality(EarlierDone(i)) = 5
        /\ appts[i].total_amount = 10000
        /\ appts[i].discount_amount = 500
        /\ appts[i].final_amount = 9500
        /\ Cardinality(EarlierDone(j)) = 4
        /\ appts[j].partner_id = appts[i].partner_id
        /\ appts[j].total_amount = 10000
        /\ appts[j].discount_amount = 0
        /\ appts[j].final_amount = 10000

DoneOf(partner) ==
    {i \in DOMAIN appts : appts[i].partner_id = partner /\ appts[i].state = "done"}

FrequentClientIffMoreThanFive ==
    \A p \in Partners :
        /\ partners[p].appointment_done_count = Cardinality(DoneOf(p))
        /\ partners[p].is_frequent_client <=> Cardinality(DoneOf(p)) > 5

\* One client was completed a visit and stays at 1, not frequent; the
\* other has more than 5 and is frequent.
FrequentClientIffMoreThanFiveWitness ==
    /\ partners["p2"].appointment_done_count = 1
    /\ ~partners["p2"].is_frequent_client
    /\ partners["p1"].appointment_done_count > 5
    /\ partners["p1"].is_frequent_client
    /\ result = "ok"

\* C13: at most one schedule is stored in every state.
AtMostOneSchedule == Len(schedules) <= 1

\* C14: a deletion of the schedule is refused and changes no stored
\* schedule, and a schedule that exists still exists after every step.
UnlinkStep ==
    /\ schedule_unlink => (result' = "protected" /\ schedules' = schedules)
    /\ \A k \in DOMAIN schedules : k \in DOMAIN schedules'

ScheduleNeverDeleted == [][UnlinkStep]_vars

\* A deletion was refused while no appointment is active and one is done.
ScheduleNeverDeletedWitness ==
    /\ result = "protected"
    /\ schedules # <<>>
    /\ active_count(appts) = 0
    /\ \E i \in DOMAIN appts : appts[i].state = "done"

\* C15: a write of the schedule is refused and changes nothing while an
\* appointment is draft or confirmed; with valid values it succeeds when
\* none is; and in every state cancelling the draft and confirmed
\* appointments succeeds and leaves none.
ActiveIds ==
    LET pick[n \in 0..Len(appts)] ==
            IF n = 0 THEN <<>>
            ELSE IF Active(appts[n]) THEN Append(pick[n - 1], n) ELSE pick[n - 1]
    IN  pick[Len(appts)]

CanUnlock ==
    LET out == run_action("action_cancel", appts, ActiveIds)
    IN  out.error = "ok" /\ \A i \in DOMAIN out.db : ~Active(out.db[i])

LockedStep ==
    \A k \in DOMAIN schedules, vals \in ScheduleVals :
        schedule_write(k, vals)
        => IF \E i \in DOMAIN appts : Active(appts[i])
           THEN result' = "locked" /\ schedules' = schedules
           ELSE schedule_valid(vals) => (result' = "ok" /\ schedules'[k] = vals)

ScheduleLockedWhileActive == []CanUnlock /\ [][LockedStep]_vars

\* A write was refused while one appointment is done and another active.
ScheduleLockedWhileActiveWitness ==
    /\ result = "locked"
    /\ \E i, j \in DOMAIN appts : appts[i].state = "done" /\ Active(appts[j])

\* C16: every stored schedule keeps the hour rules, and a create or write
\* whose values break one of them is refused and stores nothing.
HourRules(rec) ==
    /\ rec.weekday_morning_open >= 8 * TicksPerHour
    /\ rec.weekday_afternoon_close <= 22 * TicksPerHour
    /\ rec.weekday_morning_open < rec.weekday_morning_close
    /\ rec.weekday_morning_close <= rec.weekday_afternoon_open
    /\ rec.weekday_afternoon_open < rec.weekday_afternoon_close
    /\ rec.saturday_active =>
           /\ 8 * TicksPerHour <= rec.saturday_morning_open
           /\ rec.saturday_morning_open < rec.saturday_morning_close
           /\ rec.saturday_morning_close <= 22 * TicksPerHour
    /\ (rec.saturday_active /\ rec.saturday_afternoon_active) =>
           /\ 8 * TicksPerHour <= rec.saturday_afternoon_open
           /\ rec.saturday_afternoon_open < rec.saturday_afternoon_close
           /\ rec.saturday_afternoon_close <= 22 * TicksPerHour
           /\ rec.saturday_morning_close <= rec.saturday_afternoon_open

BrokenEdits == {vals \in ScheduleEdits : ~HourRules(vals)}

BrokenRulesStep ==
    \/ result' # "ok" /\ schedules' = schedules
    \/ \A vals \in BrokenEdits :
           /\ ~schedule_create(<<vals>>)
           /\ ~schedule_create(<<vals, EarlySchedule>>)
           /\ \A k \in DOMAIN schedules : ~schedule_write(k, vals)

ScheduleKeepsHourRules ==
    /\ [](\A k \in DOMAIN schedules : HourRules(schedules[k]))
    /\ [][BrokenRulesStep]_vars

\* The stored schedule was written away from the defaults, with the
\* Saturday afternoon open, and the last request was refused as invalid.
ScheduleKeepsHourRulesWitness ==
    /\ result = "invalid_schedule"
    /\ Len(schedules) = 1
    /\ schedules[1].saturday_afternoon_active
    /\ schedules[1].weekday_morning_close # DefaultSchedule.weekday_morning_close

\* C17: creating an appointment succeeds when a cancelled appointment of
\* the same stylist has the identical interval, no other appointment of
\* that stylist that is not cancelled intersects the interval, and the
\* interval lies within a weekday shift of the schedule in force.
Intersects(rec, start, end) == rec.date_start < end /\ rec.date_end > start

SlotFreed(stylist, start, end) ==
    /\ \E a \in DOMAIN appts :
           /\ appts[a].state = "cancelled"
           /\ appts[a].stylist_id = stylist
           /\ appts[a].date_start = start
           /\ appts[a].date_end = end
    /\ \A b \in DOMAIN appts :
           (appts[b].stylist_id = stylist /\ appts[b].state # "cancelled")
           => ~Intersects(appts[b], start, end)

WithinWeekdayShift(start, end) ==
    /\ schedules # <<>>
    /\ Weekday(start) \in 0..4
    /\ \/ Contained(start, end, schedules[1].weekday_morning_open,
                     schedules[1].weekday_morning_close)
       \/ Contained(start, end, schedules[1].weekday_afternoon_open,
                     schedules[1].weekday_afternoon_close)

FreedSlotStep ==
    \A s \in Stylists, t \in SlotStarts :
        (/\ SlotFreed(s, t, t + Wash.duration)
         /\ WithinWeekdayShift(t, t + Wash.duration)
         /\ create_appointment(MaxSlots, "p1", s, t, <<Wash>>))
        => /\ result' = "ok"
           /\ Len(appts') = Len(appts) + 1

CancelFreesSlot == [][FreedSlotStep]_vars

\* A cancelled appointment and a live one of the same stylist share their
\* interval, next to another live appointment of that stylist.
CancelFreesSlotWitness ==
    /\ result = "ok"
    /\ \E a, n, b \in DOMAIN appts :
           /\ a < n
           /\ appts[a].state = "cancelled" /\ appts[n].state = "draft"
           /\ appts[n].stylist_id = appts[a].stylist_id
           /\ appts[n].date_start = appts[a].date_start
           /\ appts[n].date_end = appts[a].date_end
           /\ b \notin {a, n}
           /\ appts[b].stylist_id = appts[a].stylist_id
           /\ Active(appts[b])

\* C18: under concurrent writers no state holds two appointments of one
\* stylist, neither cancelled, whose intervals intersect.
ConcurrentWritesNeverOverlap ==
    \A i, j \in DOMAIN appts :
        (/\ i < j
         /\ appts[i].stylist_id = appts[j].stylist_id
         /\ appts[i].state # "cancelled"
         /\ appts[j].state # "cancelled")
        => ~Intersects(appts[i], appts[j].date_start, appts[j].date_end)

\* C19: a creation of an appointment for a stylist who is not active is
\* refused, and archiving a stylist changes no stored appointment.
ArchivedStylistStep ==
    /\ \A s \in Stylists, t \in SlotStarts :
           (~stylists[s].active /\ create_appointment(MaxAppts, "p1", s, t, <<Wash>>))
           => (result' # "ok" /\ appts' = appts)
    /\ \A s \in Stylists : stylist_write_active(s, FALSE) => appts' = appts

InactiveStylistRefused == [][ArchivedStylistStep]_vars

\* C20: a line whose service was chosen is saved with the price and the
\* duration the service has at that moment, and a write of a service
\* changes no line, total_amount, total_duration or date_end.
CatalogStep ==
    /\ \A i \in DOMAIN appts, service \in ServiceNames :
           add_service_line(MaxCatalogLines, i, service)
           => LET line == appts'[i].line_ids[Len(appts'[i].line_ids)]
              IN  /\ result' = "ok"
                  /\ Len(appts'[i].line_ids) = Len(appts[i].line_ids) + 1
                  /\ line.service_id = service
                  /\ line.price_unit = services[service].price
                  /\ line.duration = services[service].duration
    /\ \A name \in ServiceNames, price \in CatalogPrices, duration \in CatalogDurations :
           service_write(name, price, duration)
           => \A i \in DOMAIN appts :
                  /\ appts'[i].line_ids = appts[i].line_ids
                  /\ appts'[i].total_amount = appts[i].total_amount
                  /\ appts'[i].total_duration = appts[i].total_duration
                  /\ appts'[i].date_end = appts[i].date_end

LineIsSnapshotOfService == [][CatalogStep]_vars

\* Two lines of one service bought at different prices and durations, the
\* first at neither the price nor the duration the catalog has now.
LineIsSnapshotOfServiceWitness ==
    /\ result = "ok"
    /\ \E i \in DOMAIN appts :
           /\ Len(appts[i].line_ids) = 2
           /\ appts[i].line_ids[1].service_id = appts[i].line_ids[2].service_id
           /\ appts[i].line_ids[1].price_unit # appts[i].line_ids[2].price_unit
           /\ appts[i].line_ids[1].duration # appts[i].line_ids[2].duration
           /\ appts[i].line_ids[1].price_unit
                  # services[appts[i].line_ids[1].service_id].price
           /\ appts[i].total_amount
                  = appts[i].line_ids[1].price_unit + appts[i].line_ids[2].price_unit
           /\ appts[i].date_end
                  = appts[i].date_start + appts[i].line_ids[1].duration
                      + appts[i].line_ids[2].duration

\* C21: an edit of an appointment (date_start, stylist, a line added or a
\* line's duration) that overlap detection or the business-hours
\* validation refuses leaves every field of the appointment as it was.
Refusals ==
    {"overlap", "no_schedule", "sunday", "saturday_closed", "outside_hours"}

EditOf(i) ==
    \/ \E t \in Starts : write_date_start(i, t)
    \/ \E s \in Stylists : write_stylist(i, s)
    \/ \E line \in LineVals : add_line(MaxLines, i, line)
    \/ \E k \in 1..MaxLines, d \in EditDurations : write_line_duration(i, k, d)

RefusedEditStep ==
    \/ result' \notin Refusals
    \/ \A i \in DOMAIN appts : EditOf(i) => (i \in DOMAIN appts' /\ appts'[i] = appts[i])

RefusedEditChangesNothing == [][RefusedEditStep]_vars

\* With the table full, so the last request was no create: an edit or a
\* reset was refused as overlapping, and a line still lasts half an hour
\* next to one of an hour.
RefusedEditChangesNothingWitness ==
    /\ result = "overlap"
    /\ Len(appts) = MaxAppts
    /\ \E i, j \in DOMAIN appts :
           /\ appts[i].stylist_id # appts[j].stylist_id
           /\ appts[i].date_start = appts[j].date_start
           /\ appts[i].total_duration = TicksPerHour \div 2
           /\ appts[j].total_duration = TicksPerHour
           /\ Active(appts[i]) /\ Active(appts[j])

\* C22: total_amount is the sum of price_unit over the current lines, 0
\* without lines, and final_amount is total_amount less discount_amount.
PriceOfLines(lines) ==
    LET partial[n \in 0..Len(lines)] ==
            IF n = 0 THEN 0 ELSE partial[n - 1] + lines[n].price_unit
    IN  partial[Len(lines)]

TotalIsSumOfPrices ==
    \A i \in DOMAIN appts :
        /\ appts[i].total_amount = PriceOfLines(appts[i].line_ids)
        /\ appts[i].line_ids = <<>> => appts[i].total_amount = 0
        /\ appts[i].final_amount = appts[i].total_amount - appts[i].discount_amount

\* A discounted bill of two lines, 120.00 less 6.00, and a bill without
\* lines.
TotalIsSumOfPricesWitness ==
    /\ result = "ok"
    /\ \E i, j \in DOMAIN appts :
           /\ Len(appts[i].line_ids) = 2
           /\ appts[i].total_amount = 12000
           /\ appts[i].discount_amount = 600
           /\ appts[i].final_amount = 11400
           /\ appts[j].line_ids = <<>>
           /\ appts[j].final_amount = 0

\* C23: a reset to draft of a cancelled appointment is refused, and the
\* appointment stays cancelled, when another appointment of the same
\* stylist that is not cancelled intersects its interval; otherwise the
\* appointment becomes draft.
SlotTaken(i) ==
    \E j \in DOMAIN appts :
        /\ j # i
        /\ appts[j].stylist_id = appts[i].stylist_id
        /\ appts[j].state # "cancelled"
        /\ Intersects(appts[j], appts[i].date_start, appts[i].date_end)

ResetStep ==
    \A i \in DOMAIN appts :
        (appts[i].state = "cancelled" /\ action_reset_draft(<<i>>))
        => IF SlotTaken(i)
           THEN result' = "overlap" /\ appts' = appts
           ELSE result' = "ok" /\ appts'[i].state = "draft"

ResetRechecksOverlap == [][ResetStep]_vars

\* With the table full, so the last request was no create: a reset was
\* refused because the slot of a cancelled appointment is taken by a
\* later booking.
ResetRechecksOverlapWitness ==
    /\ result = "overlap"
    /\ Len(appts) = MaxSlots
    /\ \E i, j \in DOMAIN appts :
           /\ i < j
           /\ appts[i].state = "cancelled"
           /\ Active(appts[j])
           /\ appts[j].stylist_id = appts[i].stylist_id
           /\ appts[j].date_start = appts[i].date_start

\* C24: a create or an edit of an appointment X that is not cancelled is
\* refused as overlapping exactly when another appointment E of X's
\* stylist, not cancelled, has E.date_start < X.date_end and E.date_end >
\* X.date_start; a refusal changes nothing.  (Every interval of SpecOverlap
\* lies within the Monday morning shift, so no other refusal occurs.)
Conflict(except, stylist, start, end) ==
    \E e \in DOMAIN appts :
        /\ e # except
        /\ appts[e].stylist_id = stylist
        /\ appts[e].state # "cancelled"
        /\ appts[e].date_start < end
        /\ appts[e].date_end > start

OverlapVerdict(conflict) ==
    /\ result' = "overlap" <=> conflict
    /\ conflict => appts' = appts
    /\ ~conflict => result' = "ok"

OverlapStep ==
    /\ \A s \in Stylists, t \in SlotStarts :
           create_appointment(MaxAppts, "p1", s, t, <<Wash>>)
           => OverlapVerdict(Conflict(0, s, t, t + Wash.duration))
    /\ \A i \in DOMAIN appts, t \in SlotStarts :
           (appts[i].state # "cancelled" /\ write_date_start(i, t))
           => OverlapVerdict(Conflict(i, appts[i].stylist_id, t,
                                      t + DurationOfLines(appts[i].line_ids)))
    /\ \A i \in DOMAIN appts, s \in Stylists :
           (appts[i].state # "cancelled" /\ write_stylist(i, s))
           => OverlapVerdict(Conflict(i, s, appts[i].date_start, appts[i].date_end))

OverlapIffIntersecting == [][OverlapStep]_vars

\* Accepted: two live appointments of one stylist that touch.
OverlapIffIntersectingWitness ==
    /\ result = "ok"
    /\ \E i, j \in DOMAIN appts :
           /\ appts[i].stylist_id = appts[j].stylist_id
           /\ Active(appts[i]) /\ Active(appts[j])
           /\ appts[i].date_start < appts[i].date_end
           /\ appts[i].date_end = appts[j].date_start
           /\ appts[j].date_start < appts[j].date_end

\* C25: each appointment's stored discount_amount is 5% of total_amount
\* exactly when at least 5 done appointments of its client now start
\* strictly earlier, also after the date_start of another appointment of
\* the client was edited or another appointment was completed.
StoredDiscountFollowsHistory ==
    \A i \in DOMAIN appts :
        appts[i].discount_amount = (appts[i].total_amount * 5) \div 100
        <=> Cardinality(EarlierDone(i)) >= 5

\* C26: a lifecycle action on several appointments of which the first
\* passes its guard and a later one fails it is refused and changes the
\* state of none: the ones processed before the failing one keep theirs.
BatchStep ==
    \/ /\ appts' = appts
       /\ partners' = partners
       /\ result' # "ok"
    \/ \A op \in Actions, ids \in RecordSets(appts) :
           ~(/\ Len(ids) >= 2
             /\ ~Forbidden(op, appts[ids[1]].state)
             /\ \E k \in 2..Len(ids) : Forbidden(op, appts[ids[k]].state)
             /\ action(op, ids))

BatchIsAllOrNothing == [][BatchStep]_vars

\* A button on a draft and a confirmed appointment together was refused:
\* the one still draft passes the guard of action_confirm, the other one
\* that of action_done.
BatchIsAllOrNothingWitness ==
    /\ result = "invalid_transition"
    /\ Len(appts) = 2
    /\ appts[1].state = "draft"
    /\ appts[2].state = "confirmed"

\* C27: under creations and lifecycle transitions, no client's done
\* appointments leave the state done, the stored count of them never
\* decreases, and is_frequent_client, once true, stays true.
DoneStep ==
    \A p \in Partners :
        /\ \A i \in DoneOf(p) :
               /\ i \in DOMAIN appts'
               /\ appts'[i].partner_id = p
               /\ appts'[i].state = "done"
        /\ partners'[p].appointment_done_count >= partners[p].appointment_done_count
        /\ partners[p].is_frequent_client => partners'[p].is_frequent_client

DoneCountNeverDecreases == [][DoneStep]_vars

\* Every appointment of the client, the ones booked after the history
\* included, was completed, and the client is frequent.
DoneCountNeverDecreasesWitness ==
    /\ Len(appts) = MaxHistory + 2
    /\ partners["p1"].appointment_done_count = MaxHistory + 2
    /\ partners["p1"].is_frequent_client
    /\ result = "ok"

====
